---- MODULE Spec2Model ----
(***************************************************************************)
(* Mood Music Recommender (src/app.py): one run of the Streamlit script.   *)
(* main() reads the form, detect_emotion() samples five camera frames and  *)
(* reduces the per-frame labels to one label and a confidence,             *)
(* get_spotify_recommendations() walks the artist / playlist / genre       *)
(* cascade against the catalog, and get_youtube_videos() is the fallback.  *)
(* The camera, the classifier, the catalog and the video platform are the  *)
(* environment: every answer they can give (a value or an exception) is a  *)
(* nondeterministic choice made when the call is issued.                   *)
(***************************************************************************)
EXTENDS Integers, Sequences, FiniteSets, TLC

VARIABLES
    pc,               \* position of the script run
    artist_or_genre,  \* main: the text of the form field, a sequence of characters
    frame_i,          \* detect_emotion: iterations of the frame loop done
    emotions,         \* detect_emotion: labels collected so far
    last_frame,       \* detect_emotion: 0 for None, 1 for a frame read from the camera
    order,            \* detect_emotion: iteration order of set(emotions)
    confidence,       \* detect_emotion: the confidence shown, -1 before it is computed
    emotion,          \* main: first component of detect_emotion's result
    frame,            \* main: second component of detect_emotion's result
    query,            \* get_spotify_recommendations: stripped query
    songs,            \* get_spotify_recommendations: accumulated tracks
    seen,             \* get_spotify_recommendations: URLs already appended
    artists,          \* get_spotify_recommendations: artist search items
    items,            \* get_spotify_recommendations: playlist search items
    tracks,           \* get_spotify_recommendations: last track listing received
    calls,            \* catalog calls issued, in order
    origin,           \* stage that appended each element of songs
    raised,           \* 0, or the index in calls of the call that raised
    main_songs,       \* main: value returned by get_spotify_recommendations
    yt_calls,         \* video searches issued, in order (their query strings)
    videos,           \* main: value returned by get_youtube_videos
    messages          \* what the run displayed, in order

vars == <<pc, artist_or_genre, frame_i, emotions, last_frame, order, confidence,
          emotion, frame, query, songs, seen, artists, items, tracks, calls,
          origin, raised, main_songs, yt_calls, videos, messages>>

-----------------------------------------------------------------------------
(* Bounds and program constants *)

FrameCount == 5
Cap == 10
MantBits == 53
NumLabels == 3
NumDetectLabels == 5
MaxItems == 13

None == "None"
NoFace == "no face detected"

EmotionLabels ==
    <<"happy", "sad", "neutral", "angry", "fear", "surprise", "disgust">>

Min(a, b) == IF a < b THEN a ELSE b

\* the labels the classifier answers with when the whole script runs
Labels == {EmotionLabels[i] : i \in 1..Min(NumLabels, Len(EmotionLabels))}

\* the labels the classifier answers with when detect_emotion runs alone
DetectLabels == {EmotionLabels[i] : i \in 1..Min(NumDetectLabels, Len(EmotionLabels))}

emotion_genres ==
    [e \in {"happy", "sad", "angry", "fear", "neutral", "surprise", "disgust"} |->
        CASE e = "happy" -> "pop"
          [] e = "sad" -> "acoustic"
          [] e = "angry" -> "metal"
          [] e = "fear" -> "ambient"
          [] e = "neutral" -> "indie"
          [] e = "surprise" -> "electronic"
          [] e = "disgust" -> "classical"]

\* another default than "pop"
GenreOfDefaultIndie(e) ==
    IF e \in DOMAIN emotion_genres THEN emotion_genres[e] ELSE "indie"

\* emotion_genres.get(emotion, "pop")
GenreOf(e) == IF e \in DOMAIN emotion_genres THEN emotion_genres[e] ELSE "pop"

-----------------------------------------------------------------------------
(* Strings: a string is a sequence of characters; a formatted field that   *)
(* is never inspected (an emotion label, the word music) is one element.   *)

Whitespace == {" "}

RECURSIVE LStrip(_)
LStrip(s) ==
    IF s # <<>> /\ Head(s) \in Whitespace THEN LStrip(Tail(s)) ELSE s

RECURSIVE RStrip(_)
RStrip(s) ==
    IF s # <<>> /\ s[Len(s)] \in Whitespace
    THEN RStrip(SubSeq(s, 1, Len(s) - 1))
    ELSE s

\* str.strip()
Strip(s) == RStrip(LStrip(s))

\* texts the user may type into the form field
QueryTexts ==
    { <<>>, <<" ">>, <<"a">>, <<" ", "a", " ">>, <<"a", " ", "b">> }

-----------------------------------------------------------------------------
(* Floating point: `emotions.count(final_emotion) / len(emotions)` is a    *)
(* true division of two ints giving a binary64 float, `* 100` a binary64   *)
(* product, int() a truncation.  A float is [m, e]: m is the 53-bit        *)
(* significand, most significant bit first, e the exponent of its last     *)
(* bit; the value is m * 2^e.  Both operations round to nearest, ties to   *)
(* even.                                                                   *)

\* most significant bit first, no leading zero
RECURSIVE ToBits(_)
ToBits(n) == IF n = 0 THEN <<>> ELSE ToBits(n \div 2) \o <<n % 2>>

RECURSIVE FromBits(_)
FromBits(b) ==
    IF b = <<>> THEN 0
    ELSE 2 * FromBits(SubSeq(b, 1, Len(b) - 1)) + b[Len(b)]

Zeros(n) == [i \in 1..n |-> 0]

\* bits without its leading zeros
StripZeros(bits) ==
    IF \A i \in DOMAIN bits : bits[i] = 0 THEN <<>>
    ELSE LET first == CHOOSE i \in DOMAIN bits :
                          bits[i] = 1 /\ \A j \in 1..(i - 1) : bits[j] = 0
         IN  SubSeq(bits, first, Len(bits))

\* b + 1 on a bit sequence; the result is one bit longer when b is all ones
Incr(b) ==
    IF \A i \in DOMAIN b : b[i] = 1 THEN <<1>> \o Zeros(Len(b))
    ELSE LET last == CHOOSE i \in DOMAIN b :
                         b[i] = 0 /\ \A j \in (i + 1)..Len(b) : b[j] = 1
         IN  SubSeq(b, 1, last - 1) \o <<1>> \o Zeros(Len(b) - last)

\* bits (leading bit 1, last bit of weight 2^e) rounded to MantBits bits
RoundNearestEven(bits, e) ==
    IF Len(bits) <= MantBits
    THEN [m |-> bits \o Zeros(MantBits - Len(bits)),
          e |-> e - (MantBits - Len(bits))]
    ELSE LET keep == SubSeq(bits, 1, MantBits)
             guard == bits[MantBits + 1]
             sticky == \E i \in (MantBits + 2)..Len(bits) : bits[i] = 1
             up == guard = 1 /\ (sticky \/ keep[MantBits] = 1)
             r == IF up THEN Incr(keep) ELSE keep
             e1 == e + (Len(bits) - MantBits)
         IN  IF Len(r) > MantBits
             THEN [m |-> SubSeq(r, 1, MantBits), e |-> e1 + 1]
             ELSE [m |-> r, e |-> e1]

\* long arithmetic is done on bytes, most significant first
ByteBits(bytes) ==
    [i \in 1..(8 * Len(bytes)) |->
        (bytes[((i - 1) \div 8) + 1] \div (2 ^ (7 - ((i - 1) % 8)))) % 2]

BitBytes(bits) ==
    LET pad == Zeros((8 - (Len(bits) % 8)) % 8) \o bits
    IN  [k \in 1..(Len(pad) \div 8) |-> FromBits(SubSeq(pad, 8 * k - 7, 8 * k))]

\* the next n bytes of r / t below the binary point, then the remainder
RECURSIVE DivBytes(_, _, _)
DivBytes(r, t, n) ==
    IF n = 0 THEN [bytes |-> <<>>, rem |-> r]
    ELSE LET rest == DivBytes((256 * r) % t, t, n - 1)
         IN  [bytes |-> <<(256 * r) \div t>> \o rest.bytes, rem |-> rest.rem]

\* c / t for ints 1 <= c <= t: nine bytes below the binary point hold more
\* than MantBits + 1 significant bits; a last bit records a non-zero remainder
TrueDiv(c, t) ==
    LET d == DivBytes(c % t, t, 9)
        bits == StripZeros(ByteBits(<<c \div t>> \o d.bytes))
    IN  RoundNearestEven(bits \o <<IF d.rem # 0 THEN 1 ELSE 0>>, 0 - 73)

\* bytes * k + carry
RECURSIVE MulBytes(_, _, _)
MulBytes(bytes, k, carry) ==
    IF bytes = <<>> THEN BitBytes(ToBits(carry))
    ELSE LET v == bytes[Len(bytes)] * k + carry
         IN  MulBytes(SubSeq(bytes, 1, Len(bytes) - 1), k, v \div 256)
                 \o <<v % 256>>

\* bits * k
MulBits(b, k) == StripZeros(ByteBits(MulBytes(BitBytes(b), k, 0)))

\* x * k for a float x and a small int k (k converts to a float exactly)
FloatMul(x, k) == RoundNearestEven(MulBits(x.m, k), x.e)

\* int(x) for a float x >= 0: truncation
FloatToInt(x) ==
    IF x.e >= 0 THEN FromBits(x.m \o Zeros(x.e))
    ELSE IF 0 - x.e >= MantBits THEN 0
    ELSE FromBits(SubSeq(x.m, 1, MantBits + x.e))

\* int((c / t) * 100)
Confidence(c, t) == FloatToInt(FloatMul(TrueDiv(c, t), 100))

-----------------------------------------------------------------------------
(* detect_emotion: the reduction of the collected labels *)

\* list.count
Count(seq, x) == Cardinality({i \in DOMAIN seq : seq[i] = x})

\* set(seq)
SetOf(seq) == {seq[i] : i \in DOMAIN seq}

\* the orders in which a set of strings may be iterated: the order follows the
\* strings' hashes, which are salted anew in every process
RECURSIVE Orders(_)
Orders(S) ==
    IF S = {} THEN {<<>>}
    ELSE UNION {{<<x>> \o o : o \in Orders(S \ {x})} : x \in S}

\* max(iterable, key=seq.count): the first element met with the largest key
RECURSIVE MaxFrom(_, _, _, _)
MaxFrom(o, i, best, seq) ==
    IF i > Len(o) THEN best
    ELSE MaxFrom(o, i + 1,
                 IF Count(seq, o[i]) > Count(seq, best) THEN o[i] ELSE best,
                 seq)

\* the last element met with the largest key, instead of the first
RECURSIVE MaxFromLast(_, _, _, _)
MaxFromLast(o, i, best, seq) ==
    IF i > Len(o) THEN best
    ELSE MaxFromLast(o, i + 1,
                     IF Count(seq, o[i]) >= Count(seq, best) THEN o[i] ELSE best,
                     seq)

PyMaxLast(o, seq) == MaxFromLast(o, 2, o[1], seq)

PyMax(o, seq) == MaxFrom(o, 2, o[1], seq)

-----------------------------------------------------------------------------
(* The catalog and the video platform: what they may answer *)

ArtistResults == {<<>>, <<"artist1">>}

PlaylistResults == {<<>>, <<"p1">>, <<"p2", "p1">>}

VideoResults == {<<>>, <<"v1">>, <<"v1", "v2", "v1">>}

\* a track object: URLs are 1, 2, ...; two URLs may carry the same title
Track(u) == [name |-> u % 2, artist |-> "artist", url |-> u]

\* item["track"] of a playlist item whose track is null
NullTrack == [name |-> 0, artist |-> None, url |-> 0]

\* n tracks whose URLs repeat with period m
TrackListing(n, m) == [i \in 1..n |-> Track(((i - 1) % m) + 1)]

\* answers of artist_top_tracks: top_tracks["tracks"]
TopTrackResults ==
    {TrackListing(n, m) : n \in 0..MaxItems, m \in 1..MaxItems}

\* answers of playlist_tracks: tracks["items"]; the track of item z is null
PlaylistTrackResults ==
    { [i \in 1..n |-> [track |-> IF i = z THEN NullTrack
                                  ELSE Track(((i - 1) % m) + 1)]] :
        n \in 0..MaxItems, m \in 1..MaxItems, z \in 0..2 }

\* the dictionary appended to songs
Song(t) == [name |-> <<t.name, t.artist>>, url |-> t.url]

\* for track in top_tracks["tracks"]: append unless the URL was seen
RECURSIVE CollectTracks(_, _, _)
CollectTracks(ts, sg, sn) ==
    IF ts = <<>> THEN [songs |-> sg, seen |-> sn]
    ELSE IF Head(ts).url \notin sn
    THEN CollectTracks(Tail(ts), Append(sg, Song(Head(ts))), sn \cup {Head(ts).url})
    ELSE CollectTracks(Tail(ts), sg, sn)

\* the same loop without the `if url not in seen` test
RECURSIVE CollectItemsNoSeen(_, _, _)
CollectItemsNoSeen(its, sg, sn) ==
    IF its = <<>> THEN [songs |-> sg, seen |-> sn]
    ELSE IF Head(its).track # NullTrack
    THEN CollectItemsNoSeen(Tail(its), Append(sg, Song(Head(its).track)),
                            sn \cup {Head(its).track.url})
    ELSE CollectItemsNoSeen(Tail(its), sg, sn)

\* for item in tracks["items"]: skip null tracks, append unless the URL was seen
RECURSIVE CollectItems(_, _, _)
CollectItems(its, sg, sn) ==
    IF its = <<>> THEN [songs |-> sg, seen |-> sn]
    ELSE IF Head(its).track # NullTrack /\ Head(its).track.url \notin sn
    THEN CollectItems(Tail(its), Append(sg, Song(Head(its).track)),
                      sn \cup {Head(its).track.url})
    ELSE CollectItems(Tail(its), sg, sn)

\* no slice at all
ReturnValueAll(sg) == sg

\* a slice one element too long
ReturnValueOneMore(sg) == SubSeq(sg, 1, Min(Len(sg), Cap + 1))

\* songs[:10]
ReturnValue(sg) == SubSeq(sg, 1, Min(Len(sg), Cap))

\* f"{artist_or_genre} {emotion} music"
YoutubeQuery(text, emo) == text \o <<" ", emo, " ", "music">>

Call(stage, op, arg) == [stage |-> stage, op |-> op, arg |-> arg]

-----------------------------------------------------------------------------
(* The script run *)

Init ==
    /\ pc = "form"
    /\ artist_or_genre = <<>>
    /\ frame_i = 0
    /\ emotions = <<>>
    /\ last_frame = 0
    /\ order = <<>>
    /\ confidence = -1
    /\ emotion = None
    /\ frame = 0
    /\ query = <<>>
    /\ songs = <<>>
    /\ seen = {}
    /\ artists = <<>>
    /\ items = <<>>
    /\ tracks = <<>>
    /\ calls = <<>>
    /\ origin = <<>>
    /\ raised = 0
    /\ main_songs = <<>>
    /\ yt_calls = <<>>
    /\ videos = <<>>
    /\ messages = <<>>

detectVars == <<frame_i, emotions, last_frame, order, confidence>>
searchVars == <<query, songs, seen, artists, items, tracks, calls, origin, raised>>
mainVars == <<artist_or_genre, emotion, frame, main_songs, yt_calls, videos>>

\* main: the form is submitted with a blank field
SubmitBlank(text) ==
    /\ pc = "form"
    /\ Strip(text) = <<>>
    /\ artist_or_genre' = text
    /\ messages' = Append(messages, "warning_enter_artist")
    /\ pc' = "done"
    /\ UNCHANGED <<detectVars, searchVars, emotion, frame, main_songs, yt_calls, videos>>

\* main: the form is submitted; detect_emotion opens the camera
Submit(text) ==
    /\ pc = "form"
    /\ Strip(text) # <<>>
    /\ artist_or_genre' = text
    /\ messages' = Append(messages, "info_look_at_camera")
    /\ frame_i' = 0
    /\ emotions' = <<>>
    /\ last_frame' = 0
    /\ pc' = "frames"
    /\ UNCHANGED <<order, confidence, searchVars, emotion, frame, main_songs,
                   yt_calls, videos>>

\* detect_emotion: cap.read() gives no frame; continue
FrameNotRead ==
    /\ pc = "frames"
    /\ frame_i < FrameCount
    /\ frame_i' = frame_i + 1
    /\ UNCHANGED <<pc, emotions, last_frame, order, confidence, searchVars,
                   mainVars, messages>>

\* detect_emotion: the frame is read and the classifier raises; pass
FrameRaises ==
    /\ pc = "frames"
    /\ frame_i < FrameCount
    /\ frame_i' = frame_i + 1
    /\ last_frame' = 1
    /\ UNCHANGED <<pc, emotions, order, confidence, searchVars, mainVars, messages>>

\* detect_emotion: the frame is read and classified
FrameClassified(label) ==
    /\ pc = "frames"
    /\ frame_i < FrameCount
    /\ frame_i' = frame_i + 1
    /\ last_frame' = 1
    /\ emotions' = Append(emotions, label)
    /\ UNCHANGED <<pc, order, confidence, searchVars, mainVars, messages>>

\* a default emotion instead of the failure marker
NoLabelDefault == "neutral"

\* what detect_emotion returns as its label when none was collected
NoLabelResult == NoFace

\* detect_emotion: the loop is over and no label was collected
DetectNoFace ==
    /\ pc = "frames"
    /\ frame_i = FrameCount
    /\ emotions = <<>>
    /\ emotion' = NoLabelResult
    /\ frame' = last_frame
    /\ pc' = "detected"
    /\ UNCHANGED <<detectVars, searchVars, artist_or_genre, main_songs, yt_calls,
                   videos, messages>>

\* the first element iterated, whatever its count
FinalEmotionFirst(o, seq) == o[1]

\* the label detect_emotion returns for the labels seq, set(seq) iterated as o
FinalEmotion(o, seq) == PyMax(o, seq)

\* the share among all the frames sampled, failed ones included
ConfidenceOfSampled(e, seq) == Confidence(Count(seq, e), FrameCount)

\* the confidence detect_emotion shows for the label e
ConfidenceOf(e, seq) == Confidence(Count(seq, e), Len(seq))

\* detect_emotion: the loop is over; the labels are reduced to one
DetectAggregate(o) ==
    /\ pc = "frames"
    /\ frame_i = FrameCount
    /\ emotions # <<>>
    /\ order' = o
    /\ confidence' = ConfidenceOf(FinalEmotion(o, emotions), emotions)
    /\ messages' = Append(messages, "caption_confidence")
    /\ emotion' = FinalEmotion(o, emotions)
    /\ frame' = last_frame
    /\ pc' = "detected"
    /\ UNCHANGED <<frame_i, emotions, last_frame, searchVars, artist_or_genre,
                   main_songs, yt_calls, videos>>

\* main: detect_emotion reported no face
MainNoFace ==
    /\ pc = "detected"
    /\ emotion = NoFace
    /\ messages' = Append(messages, "error_no_face")
    /\ pc' = "done"
    /\ UNCHANGED <<detectVars, searchVars, mainVars>>

\* main: the mood is shown and get_spotify_recommendations is entered
MainShowMood ==
    /\ pc = "detected"
    /\ emotion # NoFace
    /\ messages' = messages \o <<"mood_card">>
                       \o (IF frame # 0 THEN <<"image">> ELSE <<>>)
                       \o <<"write_searching">>
    /\ frame_i' = 0
    /\ emotions' = <<>>
    /\ last_frame' = 0
    /\ order' = <<>>
    /\ confidence' = -1
    /\ songs' = <<>>
    /\ seen' = {}
    /\ query' = Strip(artist_or_genre)
    /\ pc' = "artist_search"
    /\ UNCHANGED <<artists, items, tracks, calls, origin, raised, mainVars>>

\* the playlist stage entered whatever the artist stage gave
Stage2Always(sg) == TRUE

\* `if not songs:` before the playlist stage
Stage2Runs(sg) == sg = <<>>

\* `if not songs:` before the genre stage
Stage3Runs(sg) == sg = <<>>

\* where control goes once the artist stage is over with songs = sg
AfterArtistStage(sg) ==
    IF Stage2Runs(sg) THEN "playlist_search"
    ELSE IF Stage3Runs(sg) THEN "genre_search"
    ELSE "return"

\* where control goes once the playlist stage is over with songs = sg
AfterPlaylistStage(sg) ==
    IF Stage3Runs(sg) THEN "genre_search" ELSE "return"

\* what the except clause returns
ExceptValue == <<>>

\* the stage that follows the stage of a call site
NextStage(at) ==
    CASE at \in {"artist_search", "artist_top_tracks"} -> "playlist_search"
      [] at \in {"playlist_search", "playlist_tracks"} -> "genre_search"
      [] OTHER -> "return"

\* a failure handled at the call site: the stage gives nothing and the next
\* stage is entered
RaisesFallThrough(at, c) ==
    /\ pc = at
    /\ calls' = Append(calls, c)
    /\ raised' = Len(calls) + 1
    /\ messages' = Append(messages, "error_spotify")
    /\ pc' = NextStage(at)
    /\ UNCHANGED <<detectVars, query, songs, seen, artists, items, tracks, origin,
                   mainVars>>

\* a catalog call raises: the except clause of get_spotify_recommendations
\* reports the error and returns
Raises(at, c) ==
    /\ pc = at
    /\ calls' = Append(calls, c)
    /\ raised' = Len(calls) + 1
    /\ messages' = Append(messages, "error_spotify")
    /\ main_songs' = ExceptValue
    /\ pc' = "searched"
    /\ UNCHANGED <<detectVars, query, songs, seen, artists, items, tracks, origin,
                   artist_or_genre, emotion, frame, yt_calls, videos>>

\* the elements appended to songs by a stage, tagged with it
Tagged(stage, before, after) ==
    origin \o [i \in 1..(Len(after) - Len(before)) |-> stage]

\* sp.search(q=query, type="artist", limit=1) answers
ArtistSearch(found) ==
    /\ pc = "artist_search"
    /\ calls' = Append(calls, Call("artist", "search_artist", query))
    /\ artists' = found
    /\ pc' = IF found # <<>> THEN "artist_top_tracks" ELSE AfterArtistStage(songs)
    /\ UNCHANGED <<detectVars, query, songs, seen, items, tracks, origin, raised,
                   mainVars, messages>>

ArtistSearchRaises ==
    Raises("artist_search", Call("artist", "search_artist", query))

\* sp.artist_top_tracks(artist_id, country="IN") answers; the tracks are collected
ArtistTopTracks(listing) ==
    /\ pc = "artist_top_tracks"
    /\ calls' = Append(calls, Call("artist", "artist_top_tracks", artists[1]))
    /\ tracks' = listing
    /\ LET got == CollectTracks(listing, songs, seen)
       IN  /\ songs' = got.songs
           /\ seen' = got.seen
           /\ origin' = Tagged("artist", songs, got.songs)
           /\ pc' = AfterArtistStage(got.songs)
    /\ UNCHANGED <<detectVars, query, artists, items, raised, mainVars, messages>>

ArtistTopTracksRaises ==
    Raises("artist_top_tracks", Call("artist", "artist_top_tracks", artists[1]))

\* sp.search(q=query, type="playlist", limit=5) answers
PlaylistSearch(found) ==
    /\ pc = "playlist_search"
    /\ calls' = Append(calls, Call("playlist", "search_playlist", query))
    /\ items' = found
    /\ pc' = IF found # <<>> THEN "playlist_tracks" ELSE AfterPlaylistStage(songs)
    /\ UNCHANGED <<detectVars, query, songs, seen, artists, tracks, origin, raised,
                   mainVars, messages>>

PlaylistSearchRaises ==
    Raises("playlist_search", Call("playlist", "search_playlist", query))

\* sp.playlist_tracks(playlist_id, limit=20) answers; the tracks are collected
PlaylistTracks(listing) ==
    /\ pc = "playlist_tracks"
    /\ calls' = Append(calls, Call("playlist", "playlist_tracks", items[1]))
    /\ tracks' = listing
    /\ LET got == CollectItems(listing, songs, seen)
       IN  /\ songs' = got.songs
           /\ seen' = got.seen
           /\ origin' = Tagged("playlist", songs, got.songs)
           /\ pc' = AfterPlaylistStage(got.songs)
    /\ UNCHANGED <<detectVars, query, artists, items, raised, mainVars, messages>>

PlaylistTracksRaises ==
    Raises("playlist_tracks", Call("playlist", "playlist_tracks", items[1]))

\* the genre stage: sp.search(q=fallback, type="playlist", limit=5) answers
GenreSearch(found) ==
    /\ pc = "genre_search"
    /\ messages' = Append(messages, "info_mood_playlist")
    /\ calls' = Append(calls, Call("genre", "search_playlist", GenreOf(emotion)))
    /\ items' = found
    /\ pc' = IF found # <<>> THEN "genre_tracks" ELSE "return"
    /\ UNCHANGED <<detectVars, query, songs, seen, artists, tracks, origin, raised,
                   mainVars>>

\* the info line is shown before the call that raises
GenreSearchRaises ==
    /\ pc = "genre_search"
    /\ calls' = Append(calls, Call("genre", "search_playlist", GenreOf(emotion)))
    /\ raised' = Len(calls) + 1
    /\ messages' = messages \o <<"info_mood_playlist", "error_spotify">>
    /\ main_songs' = ExceptValue
    /\ pc' = "searched"
    /\ UNCHANGED <<detectVars, query, songs, seen, artists, items, tracks, origin,
                   artist_or_genre, emotion, frame, yt_calls, videos>>

\* the genre stage: sp.playlist_tracks(playlist_id, limit=20) answers
GenreTracks(listing) ==
    /\ pc = "genre_tracks"
    /\ calls' = Append(calls, Call("genre", "playlist_tracks", items[1]))
    /\ tracks' = listing
    /\ LET got == CollectItems(listing, songs, seen)
       IN  /\ songs' = got.songs
           /\ seen' = got.seen
           /\ origin' = Tagged("genre", songs, got.songs)
    /\ pc' = "return"
    /\ UNCHANGED <<detectVars, query, artists, items, raised, mainVars, messages>>

GenreTracksRaises ==
    Raises("genre_tracks", Call("genre", "playlist_tracks", items[1]))

\* return songs[:10]
Return ==
    /\ pc = "return"
    /\ main_songs' = ReturnValue(songs)
    /\ pc' = "searched"
    /\ UNCHANGED <<detectVars, searchVars, artist_or_genre, emotion, frame, yt_calls,
                   videos, messages>>

\* main: `if songs:` the recommendations are shown
MainShowSongs ==
    /\ pc = "searched"
    /\ main_songs # <<>>
    /\ messages' = Append(messages, "subheader_songs")
    /\ query' = <<>>
    /\ songs' = <<>>
    /\ seen' = {}
    /\ artists' = <<>>
    /\ items' = <<>>
    /\ tracks' = <<>>
    /\ origin' = <<>>
    /\ pc' = "done"
    /\ UNCHANGED <<detectVars, calls, raised, mainVars>>

\* the stripped query instead of the text as typed
VideoQueryStripped == YoutubeQuery(Strip(artist_or_genre), emotion)

\* the query get_youtube_videos is called with
VideoQuery == YoutubeQuery(artist_or_genre, emotion)

\* main: `else:` the video search is issued
MainFallback ==
    /\ pc = "searched"
    /\ main_songs = <<>>
    /\ messages' = Append(messages, "warning_spotify_failed")
    /\ yt_calls' = Append(yt_calls, VideoQuery)
    /\ query' = <<>>
    /\ songs' = <<>>
    /\ seen' = {}
    /\ artists' = <<>>
    /\ items' = <<>>
    /\ tracks' = <<>>
    /\ origin' = <<>>
    /\ pc' = "youtube"
    /\ UNCHANGED <<detectVars, calls, raised, artist_or_genre, emotion, frame,
                   main_songs, videos>>

\* get_youtube_videos: the search answers; main shows the videos or the error
YoutubeAnswers(found) ==
    /\ pc = "youtube"
    /\ videos' = found
    /\ messages' = Append(messages, IF found # <<>> THEN "subheader_videos"
                                    ELSE "error_no_recommendations")
    /\ pc' = "done"
    /\ UNCHANGED <<detectVars, searchVars, artist_or_genre, emotion, frame,
                   main_songs, yt_calls>>

\* get_youtube_videos: the search raises; the error is shown and [] returned
YoutubeRaises ==
    /\ pc = "youtube"
    /\ videos' = <<>>
    /\ messages' = messages \o <<"error_youtube", "error_no_recommendations">>
    /\ pc' = "done"
    /\ UNCHANGED <<detectVars, searchVars, artist_or_genre, emotion, frame,
                   main_songs, yt_calls>>

\* the next interaction reruns the script from the top
Rerun ==
    /\ pc = "done"
    /\ pc' = "form"
    /\ artist_or_genre' = <<>>
    /\ frame_i' = 0
    /\ emotions' = <<>>
    /\ last_frame' = 0
    /\ order' = <<>>
    /\ confidence' = -1
    /\ emotion' = None
    /\ frame' = 0
    /\ query' = <<>>
    /\ songs' = <<>>
    /\ seen' = {}
    /\ artists' = <<>>
    /\ items' = <<>>
    /\ tracks' = <<>>
    /\ calls' = <<>>
    /\ origin' = <<>>
    /\ raised' = 0
    /\ main_songs' = <<>>
    /\ yt_calls' = <<>>
    /\ videos' = <<>>
    /\ messages' = <<>>

Next ==
    \/ \E text \in QueryTexts : SubmitBlank(text)
    \/ \E text \in QueryTexts : Submit(text)
    \/ FrameNotRead
    \/ FrameRaises
    \/ \E label \in Labels : FrameClassified(label)
    \/ DetectNoFace
    \/ \E o \in Orders(SetOf(emotions)) : DetectAggregate(o)
    \/ MainNoFace
    \/ MainShowMood
    \/ \E found \in ArtistResults : ArtistSearch(found)
    \/ ArtistSearchRaises
    \/ \E listing \in TopTrackResults : ArtistTopTracks(listing)
    \/ ArtistTopTracksRaises
    \/ \E found \in PlaylistResults : PlaylistSearch(found)
    \/ PlaylistSearchRaises
    \/ \E listing \in PlaylistTrackResults : PlaylistTracks(listing)
    \/ PlaylistTracksRaises
    \/ \E found \in PlaylistResults : GenreSearch(found)
    \/ GenreSearchRaises
    \/ \E listing \in PlaylistTrackResults : GenreTracks(listing)
    \/ GenreTracksRaises
    \/ Return
    \/ MainShowSongs
    \/ MainFallback
    \/ \E found \in VideoResults : YoutubeAnswers(found)
    \/ YoutubeRaises
    \/ Rerun

Spec == Init /\ [][Next]_vars

-----------------------------------------------------------------------------
(* detect_emotion alone: one call, from its entry to its return, with the  *)
(* classifier answering from the larger set DetectLabels.                  *)

InitDetect ==
    /\ pc = "frames"
    /\ artist_or_genre = <<"a">>
    /\ frame_i = 0
    /\ emotions = <<>>
    /\ last_frame = 0
    /\ order = <<>>
    /\ confidence = -1
    /\ emotion = None
    /\ frame = 0
    /\ query = <<>>
    /\ songs = <<>>
    /\ seen = {}
    /\ artists = <<>>
    /\ items = <<>>
    /\ tracks = <<>>
    /\ calls = <<>>
    /\ origin = <<>>
    /\ raised = 0
    /\ main_songs = <<>>
    /\ yt_calls = <<>>
    /\ videos = <<>>
    /\ messages = <<"info_look_at_camera">>

NextDetect ==
    \/ FrameNotRead
    \/ FrameRaises
    \/ \E label \in DetectLabels : FrameClassified(label)
    \/ DetectNoFace
    \/ \E o \in Orders(SetOf(emotions)) : DetectAggregate(o)

SpecDetect == InitDetect /\ [][NextDetect]_vars

-----------------------------------------------------------------------------
(* get_spotify_recommendations alone: one call, from its entry to its      *)
(* return, for any emotion string a caller may pass, keys of the table or  *)
(* not.                                                                    *)

\* emotions passed to the function: the keys of emotion_genres and strings
\* that are no key of it (the keys are case-sensitive)
SearchEmotions == SetOf(EmotionLabels) \cup {"contempt", "Happy", ""}

InitSearch ==
    /\ pc = "artist_search"
    /\ artist_or_genre = <<" ", "a", " ">>
    /\ frame_i = 0
    /\ emotions = <<>>
    /\ last_frame = 0
    /\ order = <<>>
    /\ confidence = -1
    /\ emotion \in SearchEmotions
    /\ frame = 0
    /\ query = Strip(artist_or_genre)
    /\ songs = <<>>
    /\ seen = {}
    /\ artists = <<>>
    /\ items = <<>>
    /\ tracks = <<>>
    /\ calls = <<>>
    /\ origin = <<>>
    /\ raised = 0
    /\ main_songs = <<>>
    /\ yt_calls = <<>>
    /\ videos = <<>>
    /\ messages = <<"write_searching">>

NextSearch ==
    \/ \E found \in ArtistResults : ArtistSearch(found)
    \/ ArtistSearchRaises
    \/ \E listing \in TopTrackResults : ArtistTopTracks(listing)
    \/ ArtistTopTracksRaises
    \/ \E found \in PlaylistResults : PlaylistSearch(found)
    \/ PlaylistSearchRaises
    \/ \E listing \in PlaylistTrackResults : PlaylistTracks(listing)
    \/ PlaylistTracksRaises
    \/ \E found \in PlaylistResults : GenreSearch(found)
    \/ GenreSearchRaises
    \/ \E listing \in PlaylistTrackResults : GenreTracks(listing)
    \/ GenreTracksRaises
    \/ Return

SpecSearch == InitSearch /\ [][NextSearch]_vars

-----------------------------------------------------------------------------
(* Properties *)

Last(seq) == seq[Len(seq)]

\* detect_emotion has returned a label reduced from the collected labels
Aggregated == pc = "detected" /\ emotions # <<>>

\* the largest number of occurrences of a label in seq
MaxCount(seq) ==
    CHOOSE n \in 0..Len(seq) :
        /\ \E l \in SetOf(seq) : Count(seq, l) = n
        /\ \A l \in SetOf(seq) : Count(seq, l) <= n

\* the labels of seq whose count is the largest
Tied(seq) == {l \in SetOf(seq) : Count(seq, l) = MaxCount(seq)}

\* the index at which x first occurs in seq
FirstIndex(seq, x) ==
    CHOOSE i \in DOMAIN seq : seq[i] = x /\ \A j \in 1..(i - 1) : seq[j] # x

\* C2: for every non-empty sequence of collected labels (1 to 5 of them), the
\* label detect_emotion returns occurs in the sequence and no label occurs
\* more often than it: a label of strictly smaller count is never returned.
C2_ReturnsMode ==
    Aggregated =>
        /\ Len(emotions) \in 1..FrameCount
        /\ emotion \in SetOf(emotions)
        /\ \A l \in SetOf(emotions) : Count(emotions, l) <= Count(emotions, emotion)

\* C2 witness: five labels were collected, the set iterates a label of
\* strictly smaller count first, and the more frequent label is returned
C2_Witness ==
    /\ Aggregated
    /\ Len(emotions) = FrameCount
    /\ order[1] # emotion
    /\ Count(emotions, order[1]) < Count(emotions, emotion)

\* C3 as stated: when several labels share the largest count, the label
\* returned is the tied label met first in frame order.
C3_FirstEncounteredWins ==
    Aggregated =>
        \A l \in Tied(emotions) :
            FirstIndex(emotions, emotion) <= FirstIndex(emotions, l)

\* C3 as amended: when several labels share the largest count, the label
\* returned is the tied label that comes first in the iteration order of
\* set(emotions); that order does not follow the order of the frames.
C3_FirstInSetOrderWins ==
    Aggregated =>
        /\ emotion \in Tied(emotions)
        /\ \A l \in Tied(emotions) :
               FirstIndex(order, emotion) <= FirstIndex(order, l)

\* C3 witness: votes [sad, happy, happy, sad] and happy is returned
C3_Witness ==
    /\ Aggregated
    /\ emotions = <<"sad", "happy", "happy", "sad">>
    /\ emotion = "happy"

\* C9: the confidence shown is floor(100 * c / t), c the number of
\* occurrences of the returned label and t the number of frames that gave a
\* label, 1 <= c <= t <= 5; votes [happy, sad, happy, happy, neutral] give
\* happy and 60.
C9_ConfidenceIsFloorOfShare ==
    Aggregated =>
        /\ Count(emotions, emotion) \in 1..Len(emotions)
        /\ Len(emotions) \in 1..FrameCount
        /\ confidence = (100 * Count(emotions, emotion)) \div Len(emotions)
        /\ emotions = <<"happy", "sad", "happy", "happy", "neutral">>
               => emotion = "happy" /\ confidence = 60

\* C9 witness: two of the five frames gave no label, the other three gave
\* two labels alike and one other; the confidence is 66
C9_Witness ==
    /\ Aggregated
    /\ frame_i = FrameCount
    /\ Len(emotions) = 3
    /\ Count(emotions, emotion) = 2
    /\ confidence = 66

\* C4: when none of the 5 frames gave a label, detect_emotion returns the
\* marker "no face detected" and no emotion label, and main ends the run
\* with the error message without any catalog call or video search.
C4_NoLabelNoSearch ==
    /\ (pc = "detected" /\ emotions = <<>>) =>
           emotion = NoFace /\ emotion \notin SetOf(EmotionLabels)
    /\ (pc \in {"detected", "done"} /\ emotion = NoFace) =>
           calls = <<>> /\ yt_calls = <<>>
    /\ (pc = "done" /\ emotion = NoFace) => Last(messages) = "error_no_face"
    /\ emotion = NoFace => pc \in {"detected", "done"}

\* C4 witness: frames were read, the classifier raised on each of them, and
\* the run has ended
C4_Witness ==
    /\ pc = "done"
    /\ emotion = NoFace
    /\ frame = 1
    /\ frame_i = FrameCount

-----------------------------------------------------------------------------

StageRank(st) == CASE st = "artist" -> 1 [] st = "playlist" -> 2 [] st = "genre" -> 3

C5_StrictPriority ==
    /\ \A i, j \in DOMAIN calls :
           i < j => StageRank(calls[i].stage) <= StageRank(calls[j].stage)
    /\ \A i \in DOMAIN calls : \A k \in DOMAIN origin :
           StageRank(origin[k]) >= StageRank(calls[i].stage)
    /\ Cardinality(SetOf(origin)) <= 1
    /\ (pc = "searched" /\ main_songs # <<>>) => Cardinality(SetOf(origin)) = 1

\* C5 witness: the artist stage yielded tracks and the function returned
\* them after its two calls
C5_Witness ==
    /\ pc = "searched"
    /\ main_songs # <<>>
    /\ origin[1] = "artist"
    /\ Len(calls) = 2

\* C6: the list get_spotify_recommendations returns never holds two entries
\* with the same URL.
C6_NoDuplicateUrl ==
    pc = "searched" =>
        \A i, j \in DOMAIN main_songs :
            i # j => main_songs[i].url # main_songs[j].url

\* C6 witness: a playlist listing that repeats a URL was collected and more
\* than one track is returned
C6_Witness ==
    /\ pc = "searched"
    /\ Len(main_songs) > 1
    /\ Last(calls).op = "playlist_tracks"
    /\ \E i, j \in DOMAIN tracks :
           i # j /\ tracks[i].track # NullTrack /\ tracks[i].track = tracks[j].track

\* the tracks of a playlist listing, null items left out
NonNull(listing) ==
    LET idx == {i \in DOMAIN listing : listing[i].track # NullTrack}
        nth(k) == CHOOSE i \in idx : Cardinality({j \in idx : j <= i}) = k
    IN  [k \in 1..Cardinality(idx) |-> listing[nth(k)].track]

\* ts with only the first occurrence of every URL, in the order of ts
DedupFirst(ts) ==
    LET idx == {i \in DOMAIN ts : \A j \in 1..(i - 1) : ts[j].url # ts[i].url}
        nth(k) == CHOOSE i \in idx : Cardinality({j \in idx : j <= i}) = k
    IN  [k \in 1..Cardinality(idx) |-> ts[nth(k)]]

\* the first n elements of seq
Take(seq, n) == [k \in 1..Min(Len(seq), n) |-> seq[k]]

\* the genre stage was reached and the function returned without a raise
GenreReturned ==
    pc = "searched" /\ raised = 0 /\ calls # <<>> /\ Last(calls).stage = "genre"

C8_VideoSearchOnlyOnEmpty ==
    /\ Len(yt_calls) <= 1
    /\ yt_calls # <<>> =>
           /\ main_songs = <<>>
           /\ calls # <<>>
           /\ pc \in {"youtube", "done"}
           /\ yt_calls[1] = artist_or_genre \o <<" ">> \o <<emotion>> \o <<" ">>
                                \o <<"music">>
    /\ (pc \in {"youtube", "done"} /\ calls # <<>> /\ main_songs = <<>>) =>
           Len(yt_calls) = 1
    /\ main_songs # <<>> => yt_calls = <<>>

\* C8 witness: the text was typed with blanks around it, the three stages ran
\* without a raise and gave nothing, and the video search is under way
C8_Witness ==
    /\ pc = "youtube"
    /\ artist_or_genre = <<" ", "a", " ">>
    /\ raised = 0
    /\ Last(calls).stage = "genre"
    /\ Len(yt_calls) = 1

\* C10: get_spotify_recommendations never raises to main: whichever call
\* raises, control is back in main with an empty list and the error shown,
\* and otherwise at most 10 tracks are returned.
C10_NeverRaisesAtMostCap ==
    /\ (pc = "searched" /\ raised # 0) =>
           main_songs = <<>> /\ Last(messages) = "error_spotify"
    /\ (pc = "searched" /\ raised = 0) => main_songs = Take(songs, 10)
    /\ pc = "searched" => Len(main_songs) <= 10
    /\ raised # 0 =>
           pc \notin {"artist_search", "artist_top_tracks", "playlist_search",
                      "playlist_tracks", "genre_search", "genre_tracks", "return"}

\* C10 witness: the last call of the last stage raised and main has the
\* empty list
C10_Witness ==
    /\ pc = "searched"
    /\ raised = Len(calls)
    /\ Last(calls).stage = "genre"
    /\ Last(calls).op = "playlist_tracks"
    /\ main_songs = <<>>

-----------------------------------------------------------------------------

\* the genre the static table gives for an emotion, "pop" for any other string
TableGenre(e) ==
    CASE e = "happy" -> "pop"
      [] e = "sad" -> "acoustic"
      [] e = "angry" -> "metal"
      [] e = "fear" -> "ambient"
      [] e = "neutral" -> "indie"
      [] e = "surprise" -> "electronic"
      [] e = "disgust" -> "classical"
      [] OTHER -> "pop"

\* C11: when the genre stage is reached, the playlist search of that stage
\* is issued with the genre the static table gives for the emotion (happy ->
\* pop, sad -> acoustic, angry -> metal, fear -> ambient, neutral -> indie,
\* surprise -> electronic, disgust -> classical), and with "pop" for every
\* emotion that is no key of the table; the query text is not used.
C11_GenreSearchTerm ==
    /\ \A i \in DOMAIN calls :
           (calls[i].stage = "genre" /\ calls[i].op = "search_playlist") =>
               calls[i].arg = TableGenre(emotion)
    /\ (pc \in {"genre_tracks", "return", "searched"} /\ raised = 0
            /\ calls # <<>> /\ Last(calls).stage = "genre") =>
           \E i \in DOMAIN calls :
               calls[i].stage = "genre" /\ calls[i].op = "search_playlist"

\* C11 witness: the emotion is no key of the table (a capitalised key), the
\* artist and playlist stages gave nothing, and the genre search was issued
\* with "pop"
C11_Witness ==
    /\ emotion = "Happy"
    /\ pc = "genre_tracks"
    /\ Last(calls) = Call("genre", "search_playlist", "pop")
    /\ Len(calls) > 2

====
